---- MODULE Spec2Model ----
(***************************************************************************)
(* Graph-construction model of tf_utils/python_ops: the layer operators    *)
(* affine, conv, deconv, gated_conv, the helper _constant_pad and the      *)
(* stack combinator make_stack.  A tensor is its static shape (what        *)
(* X.get_shape() returns, None for an unknown dimension), its runtime      *)
(* shape (what tf.shape(X) evaluates to) and, for the spatial axes, a grid *)
(* that names for every position the position of the input it was copied   *)
(* from.  A LayerSpec is a Python dict, modelled as a function from its    *)
(* keys.  The variable registry is the collaborator behind                 *)
(* scoped_variable.                                                        *)
(***************************************************************************)
EXTENDS Integers, Sequences, FiniteSets, TLC

VARIABLES registry, call, ncalls, stk

vars == <<registry, call, ncalls, stk>>

(* ------------------------------ bounds --------------------------------- *)

MaxDim == 2

MaxK == 3

MaxCalls == 2

MaxLayers == 3

(* An unknown static dimension: Dimension(None).value is None. *)
None == -1

Truthy(v) == v # None /\ v # 0

Channels == {1, 2}

StrideSteps == {1, 2}

(* ------------------------------ tensors -------------------------------- *)

IdentityGrid(w, h) == [i \in 1..w |-> [j \in 1..h |-> <<i, j>>]]

(* A tensor freshly produced by the engine: every spatial position holds   *)
(* its own element.  Tensors of rank other than 4 carry no grid.           *)
Fresh(static, dyn) == [static |-> static, dyn |-> dyn, grid |-> IF Len(dyn) = 4 THEN IdentityGrid(dyn[2], dyn[3]) ELSE <<>>]

NoTensor == [static |-> <<>>, dyn |-> <<>>, grid |-> <<>>]

ndims(X) == Len(X.static)

Tile(slice, n) == [i \in 1..n |-> slice]

AddDim(a, b) == IF a = None \/ b = None THEN None ELSE a + b

(* tf.concat(3, [X, tf.ones(tf.concat(0, [tf.shape(X)[:3], [1]]))]):       *)
(* one more channel, the spatial axes untouched.                           *)
ConcatOnes(X) == [static |-> [X.static EXCEPT ![4] = AddDim(@, 1)], dyn |-> [X.dyn EXCEPT ![4] = @ + 1], grid |-> X.grid]

(* ------------------------------ LayerSpec ------------------------------ *)

Has(param, key) == key \in DOMAIN param

(* base._default_value: fill the key when the dict does not hold it. *)
_default_value(param, key, value) == IF Has(param, key) THEN param ELSE param @@ (key :> value)

(* param.get('bias') as a condition *)
GetBias(param) == Has(param, "bias") /\ param["bias"] = TRUE

(* ------------------------------ registry ------------------------------- *)

Lookup(reg, scope_name, name) == {p \in reg : p.scope = scope_name /\ p.name = name}

FullyDefined(shape) == \A i \in 1..Len(shape) : shape[i] # None

NoVar == [id |-> 0, scope |-> "", name |-> "", shape |-> <<>>]

(* base.scoped_variable: get_or_create(scope, name, shape).  An existing   *)
(* (scope, name) is returned when the shape agrees and refused otherwise;  *)
(* a new one needs a fully defined shape.                                  *)
scoped_variable(reg, name, scope_name, shape) ==
    LET found == Lookup(reg, scope_name, name)
        new == [id |-> Cardinality(reg) + 1, scope |-> scope_name, name |-> name, shape |-> shape]
    IN  IF found # {}
        THEN LET p == CHOOSE q \in found : TRUE
             IN  [ok |-> p.shape = shape, reg |-> reg, var |-> IF p.shape = shape THEN p ELSE NoVar]
        ELSE IF FullyDefined(shape)
             THEN [ok |-> TRUE, reg |-> reg \cup {new}, var |-> new]
             ELSE [ok |-> FALSE, reg |-> reg, var |-> NoVar]

(* ------------------------------ results -------------------------------- *)

(* What one operator call leaves behind: whether it returned, the registry *)
(* and the (mutated in place) LayerSpec after it, the parameters it was    *)
(* handed, the tensor and arguments given to the engine primitive, and the *)
(* tensor returned.                                                        *)
Result(status, reason, reg, param, got, primX, primPad, output_shape, out) ==
    [status |-> status, reason |-> reason, reg |-> reg, param |-> param, got |-> got, primX |-> primX, primPad |-> primPad, output_shape |-> output_shape, out |-> out]

Fail(reason, reg, param, got) == Result("fail", reason, reg, param, got, NoTensor, "", <<>>, NoTensor)

(* --------------------------- _constant_pad ----------------------------- *)

PadBefore(k) == k \div 2

(* Variant of PadAfter that pads as many after as before. *)
PadAfterSymmetric(k) == k \div 2

PadAfter(k) == k - k \div 2 - 1

(* X_ = concat(1, [tile(X[:, :1], wb), X, tile(X[:, -1:], wa)]) *)
PadWidth(grid, wb, wa) == Tile(grid[1], wb) \o grid \o Tile(grid[Len(grid)], wa)

(* X_pad = concat(2, [tile(X_[:, :, :1], hb), X_, tile(X_[:, :, -1:], ha)]) *)
PadHeight(grid, hb, ha) == [i \in 1..Len(grid) |-> Tile(grid[i][1], hb) \o grid[i] \o Tile(grid[i][Len(grid[i])], ha)]

_constant_pad(X, ker_shape) ==
    LET kw == ker_shape[1]
        kh == ker_shape[2]
        wb == PadBefore(kw)
        wa == PadAfter(kw)
        hb == PadBefore(kh)
        ha == PadAfter(kh)
    IN  [static |-> [X.static EXCEPT ![2] = AddDim(@, wb + wa), ![3] = AddDim(@, hb + ha)],
         dyn |-> [X.dyn EXCEPT ![2] = @ + wb + wa, ![3] = @ + hb + ha],
         grid |-> PadHeight(PadWidth(X.grid, wb, wa), hb, ha)]

(* ------------------------------- conv ---------------------------------- *)

CeilDiv(n, s) == (n + s - 1) \div s

(* Output size of the engine's convolution along one spatial axis. *)
ConvOutDim(n, k, s, pad_type) == IF pad_type = "SAME" THEN CeilDiv(n, s) ELSE CeilDiv(n - k + 1, s)

ConvOutStatic(n, k, s, pad_type) == IF n = None THEN None ELSE ConvOutDim(n, k, s, pad_type)

(* tf.nn.conv2d(X, kernel, stride, padding=pad_type) *)
conv2d(X, ker_shape, stride, pad_type) ==
    Fresh(<<X.static[1], ConvOutStatic(X.static[2], ker_shape[1], stride[2], pad_type), ConvOutStatic(X.static[3], ker_shape[2], stride[3], pad_type), ker_shape[4]>>,
          <<X.dyn[1], ConvOutDim(X.dyn[2], ker_shape[1], stride[2], pad_type), ConvOutDim(X.dyn[3], ker_shape[2], stride[3], pad_type), ker_shape[4]>>)

KernelName(name) == "kernel_" \o name

(* Variant of ConvKerShape in deconv's order, output channels first. *)
ConvKerShapeSwapped(kw, kh, c_in, c_out) == <<kw, kh, c_out, c_in>>

ConvKerShape(kw, kh, c_in, c_out) == <<kw, kh, c_in, c_out>>

(* conv, from the kernel request on (lines 66-72) *)
ConvApply(reg, X, param, name, scope_name, ker_shape, pad_type) ==
    LET kernel == scoped_variable(reg, KernelName(name), scope_name, ker_shape)
        out == conv2d(X, ker_shape, param["stride"], pad_type)
    IN  IF ~kernel.ok THEN Fail("variable", kernel.reg, param, <<>>)
        ELSE IF out.dyn[2] < 1 \/ out.dyn[3] < 1 THEN Fail("conv2d", kernel.reg, param, <<kernel.var>>)
        ELSE Result("ok", "", kernel.reg, param, <<kernel.var>>, X, pad_type, <<>>, out)

(* Variant of ConvPad that requests the kernel before it checks the       *)
(* stride of a CONSTANT pad.                                               *)
ConvPadAfterRequest(reg, X, param, name, scope_name, ker_shape) ==
    IF param["pad"] = "CONSTANT"
    THEN IF param["stride"] # <<1, 1, 1, 1>> THEN Fail("constant_stride", scoped_variable(reg, KernelName(name), scope_name, ker_shape).reg, param, <<>>)
         ELSE ConvApply(reg, _constant_pad(X, ker_shape), param, name, scope_name, ker_shape, "VALID")
    ELSE ConvApply(reg, X, param, name, scope_name, ker_shape, param["pad"])

(* conv, from the padding decision on (lines 59-64) *)
ConvPad(reg, X, param, name, scope_name, ker_shape) ==
    IF param["pad"] = "CONSTANT"
    THEN IF param["stride"] # <<1, 1, 1, 1>> THEN Fail("constant_stride", reg, param, <<>>)
         ELSE ConvApply(reg, _constant_pad(X, ker_shape), param, name, scope_name, ker_shape, "VALID")
    ELSE ConvApply(reg, X, param, name, scope_name, ker_shape, param["pad"])

(* conv, from the kernel unpacking on (lines 50-57) *)
ConvChannels(reg, X, param, name, scope_name) ==
    LET kernel == param["kernel"]
        c_in == X.static[4]
    IN  IF Len(kernel) # 3 THEN Fail("unpack", reg, param, <<>>)
        ELSE IF GetBias(param)
        THEN IF c_in = None THEN Fail("unknown_channels", reg, param, <<>>)
             ELSE ConvPad(reg, ConcatOnes(X), param, name, scope_name, ConvKerShape(kernel[1], kernel[2], c_in + 1, kernel[3]))
        ELSE ConvPad(reg, X, param, name, scope_name, ConvKerShape(kernel[1], kernel[2], c_in, kernel[3]))

(* Variant of ConvDefaults that assigns the two keys instead of defaulting *)
(* them.                                                                   *)
ConvDefaultsOverwrite(param) == [key \in DOMAIN param \cup {"stride", "pad"} |-> IF key = "stride" THEN <<1, 1, 1, 1>> ELSE IF key = "pad" THEN "SAME" ELSE param[key]]

ConvDefaults(param) == _default_value(_default_value(param, "stride", <<1, 1, 1, 1>>), "pad", "SAME")

conv(reg, X, param, name, scope_name) ==
    IF ndims(X) # 4 THEN Fail("rank", reg, param, <<>>)
    ELSE ConvChannels(reg, X, ConvDefaults(param), name, scope_name)

(* ------------------------------ deconv --------------------------------- *)

(* Lines 94-107: the kernel tuple read against the input's channel count. *)
DeconvUnpack(c_in, kernel) ==
    IF Truthy(c_in)
    THEN IF Len(kernel) = 3
         THEN [ok |-> TRUE, reason |-> "", kw |-> kernel[1], kh |-> kernel[2], c_out |-> kernel[3], c_in |-> c_in]
         ELSE [ok |-> kernel[3] = c_in, reason |-> "channel_conflict", kw |-> kernel[1], kh |-> kernel[2], c_out |-> kernel[4], c_in |-> c_in]
    ELSE IF Len(kernel) = 4
         THEN [ok |-> TRUE, reason |-> "", kw |-> kernel[1], kh |-> kernel[2], c_out |-> kernel[3], c_in |-> kernel[4]]
         ELSE [ok |-> FALSE, reason |-> "channel_unknown", kw |-> kernel[1], kh |-> kernel[2], c_out |-> kernel[3], c_in |-> c_in]

(* Variant of DeconvStaticDim that adds kernel_size - 1 under every pad. *)
DeconvStaticDimPadded(n, s, k, pad_type) == n * s + k - 1

(* Lines 123-127: the static size of one spatial axis of the result. *)
DeconvStaticDim(n, s, k, pad_type) == IF pad_type = "VALID" THEN n * s + k - 1 ELSE n * s

(* Lines 130-133: the same size computed from the runtime shape. *)
DeconvDynDim(n, s, k, pad_type) == IF pad_type = "VALID" THEN n * s + k - 1 ELSE n * s

(* Lines 135-139: output_shape = [batch, wh_dims, param['kernel'][2:3]] *)
DeconvOutputShape(X, param, pad_type) ==
    <<X.dyn[1], DeconvDynDim(X.dyn[2], param["stride"][2], param["kernel"][1], pad_type), DeconvDynDim(X.dyn[3], param["stride"][3], param["kernel"][2], pad_type), param["kernel"][3]>>

(* Lines 121-127 and 145-146: the shape set_shape declares, or the         *)
(* primitive's unknown rank-4 shape when w or h is not known.              *)
DeconvDeclared(X, param, u, pad_type) ==
    IF Truthy(X.static[2]) /\ Truthy(X.static[3])
    THEN <<X.static[1], DeconvStaticDim(X.static[2], param["stride"][2], u.kw, pad_type), DeconvStaticDim(X.static[3], param["stride"][3], u.kh, pad_type), u.c_out>>
    ELSE <<None, None, None, None>>

DeconvKerShape(kw, kh, c_out, c_in) == <<kw, kh, c_out, c_in>>

(* deconv, from the kernel request on (lines 116-148) *)
DeconvApply(reg, X, param, name, scope_name, u, c_in) ==
    LET kernel == scoped_variable(reg, KernelName(name), scope_name, DeconvKerShape(u.kw, u.kh, u.c_out, c_in))
        pad_type == param["pad"]
        output_shape == DeconvOutputShape(X, param, pad_type)
    IN  IF ~kernel.ok THEN Fail("variable", kernel.reg, param, <<>>)
        ELSE IF pad_type \notin {"SAME", "VALID"} THEN Fail("conv2d_transpose", kernel.reg, param, <<kernel.var>>)
        ELSE Result("ok", "", kernel.reg, param, <<kernel.var>>, X, pad_type, output_shape,
                    [static |-> DeconvDeclared(X, param, u, pad_type), dyn |-> output_shape, grid |-> IdentityGrid(output_shape[2], output_shape[3])])

(* deconv, from the channel inference on (lines 91-114) *)
DeconvChannels(reg, X, param, name, scope_name) ==
    LET u == DeconvUnpack(X.static[4], param["kernel"])
    IN  IF ~u.ok THEN Fail(u.reason, reg, param, <<>>)
        ELSE IF GetBias(param) THEN DeconvApply(reg, ConcatOnes(X), param, name, scope_name, u, u.c_in + 1)
        ELSE DeconvApply(reg, X, param, name, scope_name, u, u.c_in)

DeconvDefaults(param) == _default_value(_default_value(param, "stride", <<1, 1, 1, 1>>), "pad", "SAME")

deconv(reg, X, param, name, scope_name) ==
    IF ndims(X) # 4 THEN Fail("rank", reg, param, <<>>)
    ELSE DeconvChannels(reg, X, DeconvDefaults(param), name, scope_name)

(* ----------------------------- gated_conv ------------------------------ *)

(* Variant of GateName that names both kernels alike. *)
GateNameShared(name, which) == name \o "_f"

GateName(name, which) == name \o "_" \o which

gated_conv(reg, X, param, name, scope_name) ==
    LET Xf == conv(reg, X, param, GateName(name, "f"), scope_name)
        Xg == conv(Xf.reg, X, Xf.param, GateName(name, "g"), scope_name)
    IN  IF Xf.status # "ok" THEN Xf
        ELSE IF Xg.status # "ok" THEN Fail(Xg.reason, Xg.reg, Xg.param, Xf.got \o Xg.got)
        ELSE Result("ok", "", Xg.reg, Xg.param, Xf.got \o Xg.got, Xg.primX, Xg.primPad, <<>>, Fresh(Xf.out.static, Xf.out.dyn))

(* ------------------------------- affine -------------------------------- *)

AffineSpec(dim_out) == "dim_out" :> dim_out

affine(reg, X, dim_out, name, scope_name) ==
    LET W == scoped_variable(reg, "w_" \o name, scope_name, <<X.static[2], dim_out>>)
        b == scoped_variable(W.reg, "b_" \o name, scope_name, <<dim_out>>)
    IN  IF ndims(X) # 2 THEN Fail("rank", reg, AffineSpec(dim_out), <<>>)
        ELSE IF ~W.ok THEN Fail("variable", W.reg, AffineSpec(dim_out), <<>>)
        ELSE IF ~b.ok THEN Fail("variable", b.reg, AffineSpec(dim_out), <<W.var>>)
        ELSE Result("ok", "", b.reg, AffineSpec(dim_out), <<W.var, b.var>>, X, "", <<>>, Fresh(<<X.static[1], dim_out>>, <<X.dyn[1], dim_out>>))

(* ----------------------------- make_stack ------------------------------ *)

Event(ev, i, fn) == [ev |-> ev, i |-> i, fn |-> fn]

(* Line 31-32: a nonlinearity that is not a list is repeated len(params)   *)
(* times; a list is taken as it is.                                        *)
NonlinList(nonlin, n) == IF nonlin.list THEN nonlin.fns ELSE [k \in 1..n |-> nonlin.fn]

(* Variant of AppliesNonlin with the bound off by one: the nonlinearity   *)
(* follows the last layer too.                                             *)
AppliesNonlinLate(raw_output, i, n) == ~raw_output \/ i < n

(* Line 35: whether the nonlinearity follows layer i. *)
AppliesNonlin(raw_output, i, n) == ~raw_output \/ i + 1 < n

Idle == [pc |-> "idle", n |-> 0, nonlin_in |-> [list |-> FALSE, fn |-> "", fns |-> <<>>], nonlin |-> <<>>, raw_output |-> TRUE, i |-> 0, trace |-> <<>>]

(* generic_stack is entered: lines 28-32. *)
StackCall(n, nonlin, raw_output) ==
    /\ stk.pc = "idle"
    /\ stk' = [pc |-> IF n = 0 THEN "done" ELSE "loop", n |-> n, nonlin_in |-> nonlin, nonlin |-> NonlinList(nonlin, n), raw_output |-> raw_output, i |-> 0, trace |-> <<>>]
    /\ UNCHANGED <<registry, call, ncalls>>

(* One iteration of the loop, lines 33-36; nonlin[i] past the end of the   *)
(* list raises IndexError and the call is abandoned.                       *)
StackLayer ==
    /\ stk.pc = "loop"
    /\ LET i == stk.i
           applied == Append(stk.trace, Event("func", i, ""))
       IN  IF AppliesNonlin(stk.raw_output, i, stk.n)
           THEN IF i + 1 > Len(stk.nonlin)
                THEN stk' = [stk EXCEPT !.pc = "fail", !.trace = applied]
                ELSE stk' = [stk EXCEPT !.pc = IF i + 1 < stk.n THEN "loop" ELSE "done", !.i = i + 1, !.trace = Append(applied, Event("nonlin", i, stk.nonlin[i + 1]))]
           ELSE stk' = [stk EXCEPT !.pc = IF i + 1 < stk.n THEN "loop" ELSE "done", !.i = i + 1, !.trace = applied]
    /\ UNCHANGED <<registry, call, ncalls>>

(* ------------------------------ inputs --------------------------------- *)

Dims == {None} \cup (1..MaxDim)

(* The runtime size of a dimension: the static one when it is known. *)
RuntimeOf(d) == IF d = None THEN MaxDim ELSE d

Tensor4(w, h, c) == Fresh(<<None, w, h, c>>, <<1, RuntimeOf(w), RuntimeOf(h), IF c = None THEN 1 ELSE c>>)

Tensors4 == {Tensor4(w, h, c) : w \in Dims, h \in Dims, c \in Channels \cup {None}}

Tensor2(d) == Fresh(<<None, d>>, <<1, d>>)

Tensor3 == Fresh(<<None, MaxDim, 1>>, <<1, MaxDim, 1>>)

(* A LayerSpec dict; an empty stride, an empty pad and bias "absent" leave *)
(* the key out.                                                            *)
LayerSpec(kernel, stride, pad, bias) ==
    [key \in {"kernel"} \cup (IF stride = <<>> THEN {} ELSE {"stride"}) \cup (IF pad = "" THEN {} ELSE {"pad"}) \cup (IF bias = "absent" THEN {} ELSE {"bias"}) |->
        CASE key = "kernel" -> kernel
          [] key = "stride" -> stride
          [] key = "pad" -> pad
          [] key = "bias" -> (bias = "true")]

KernelSizes == 1..MaxK

Kernels3 == {<<kw, kh, c>> : kw \in KernelSizes, kh \in KernelSizes, c \in Channels}

Kernels4 == {<<kw, kh, c, d>> : kw \in KernelSizes, kh \in KernelSizes, c \in Channels, d \in Channels}

Strides == {<<>>} \cup {<<1, sw, sh, 1>> : sw \in StrideSteps, sh \in StrideSteps}

Pads == {"", "SAME", "VALID", "CONSTANT"}

LayerSpecs == {LayerSpec(k, s, p, b) : k \in Kernels3 \cup Kernels4, s \in Strides, p \in Pads, b \in {"absent", "true"}}

(* ------------------------------ actions -------------------------------- *)

NoCall == [op |-> "", X |-> NoTensor, param_in |-> <<>>, name |-> "", scope_name |-> "", from |-> "", created |-> 0, res |-> Fail("", {}, <<>>, <<>>)]

Returned(op, X, param, name, scope_name, from, res) ==
    /\ registry' = res.reg
    /\ call' = [op |-> op, X |-> X, param_in |-> param, name |-> name, scope_name |-> scope_name, from |-> from, created |-> Cardinality(res.reg) - Cardinality(registry), res |-> res]
    /\ ncalls' = ncalls + 1
    /\ UNCHANGED stk

ConvCall(X, param, name, scope_name, from) == Returned("conv", X, param, name, scope_name, from, conv(registry, X, param, name, scope_name))

DeconvCall(X, param, name, scope_name) == Returned("deconv", X, param, name, scope_name, "input", deconv(registry, X, param, name, scope_name))

GatedConvCall(X, param, name, scope_name) == Returned("gated_conv", X, param, name, scope_name, "input", gated_conv(registry, X, param, name, scope_name))

AffineCall(X, dim_out, name, scope_name) == Returned("affine", X, AffineSpec(dim_out), name, scope_name, "input", affine(registry, X, dim_out, name, scope_name))

Init ==
    /\ registry = {}
    /\ call = NoCall
    /\ ncalls = 0
    /\ stk = Idle

(* Shapes: one conv or deconv call on a fresh graph over every tensor and  *)
(* LayerSpec of the bounds, and a conv of the deconv's result with the     *)
(* same LayerSpec.                                                         *)
ShapeConv == ncalls = 0 /\ \E X \in Tensors4, param \in LayerSpecs : ConvCall(X, param, "a", "conv", "input")

ShapeDeconv == ncalls = 0 /\ \E X \in Tensors4, param \in LayerSpecs : DeconvCall(X, param, "a", "deconv")

RoundTrip == ncalls = 1 /\ call.op = "deconv" /\ call.res.status = "ok" /\ ConvCall(call.res.out, call.res.param, "a", "conv", "deconv")

NextShape == ShapeConv \/ ShapeDeconv \/ RoundTrip

SpecShape == Init /\ [][NextShape]_vars

(* Stacks: every stack call of the bounds, run to its end. *)
Fns == {"tanh", "sigmoid"}

RECURSIVE FnLists(_)
FnLists(len) == IF len = 0 THEN {<<>>} ELSE FnLists(len - 1) \cup {Append(l, f) : l \in {m \in FnLists(len - 1) : Len(m) = len - 1}, f \in Fns}

Nonlins == {[list |-> FALSE, fn |-> f, fns |-> <<>>] : f \in Fns} \cup {[list |-> TRUE, fn |-> "", fns |-> l] : l \in FnLists(MaxLayers + 1)}

StackEnter == \E n \in 1..MaxLayers, nonlin \in Nonlins, raw_output \in BOOLEAN : StackCall(n, nonlin, raw_output)

NextStack == StackEnter \/ StackLayer

SpecStack == Init /\ [][NextStack]_vars

(* Registry: sequences of operator calls on one graph, over a few tensors  *)
(* and LayerSpecs that reach every failure of the operators, and over two  *)
(* names (one the gate name of the other) and two scopes.                  *)
RegTensors == {Tensor4(MaxDim, MaxDim, 1), Tensor4(None, None, None), Tensor2(2)}

RegSpecs ==
    {LayerSpec(<<1, 1, 1>>, <<>>, "", "absent"),
     LayerSpec(<<MaxK, 2, 2>>, <<>>, "CONSTANT", "true"),
     LayerSpec(<<2, MaxK, 1>>, <<1, 2, 2, 1>>, "CONSTANT", "absent"),
     LayerSpec(<<1, 1, 2, 2>>, <<1, 1, 1, 1>>, "SAME", "absent"),
     LayerSpec(<<1, 1, 1>>, <<1, 1, 1, 1>>, "SAME", "absent")}

(* <<name, scope_name>> *)
Names == {<<"a", "conv">>, <<"a_f", "conv">>, <<"a", "net">>}

DoConv == ncalls < MaxCalls /\ \E X \in RegTensors, param \in RegSpecs, n \in Names : ConvCall(X, param, n[1], n[2], "input")

DoDeconv == ncalls < MaxCalls /\ \E X \in RegTensors, param \in RegSpecs, n \in Names : DeconvCall(X, param, n[1], n[2])

DoGatedConv == ncalls < MaxCalls /\ \E X \in RegTensors, param \in RegSpecs, n \in Names : GatedConvCall(X, param, n[1], n[2])

DoAffine == ncalls < MaxCalls /\ \E X \in RegTensors, dim_out \in Channels, n \in Names : AffineCall(X, dim_out, n[1], n[2])

Next == DoConv \/ DoDeconv \/ DoGatedConv \/ DoAffine

Spec == Init /\ [][Next]_vars

(* ------------------------------ claims --------------------------------- *)

(* The event the claim puts at position k (1-based) of a stack call's      *)
(* trace: layer i = (k-1) \div 2 at the odd positions, nonlinearity i      *)
(* after it at the even ones.                                              *)
NonlinOf(nonlin, i) == IF nonlin.list THEN nonlin.fns[i + 1] ELSE nonlin.fn

StackEvent(k) == IF k % 2 = 1 THEN Event("func", (k - 1) \div 2, "") ELSE Event("nonlin", (k - 2) \div 2, NonlinOf(stk.nonlin_in, (k - 2) \div 2))

(* C1: a stack call applies func to the layers in index order, and the     *)
(* nonlinearity of layer i (the shared one when it is not a list) to the   *)
(* output of layer i before layer i+1 runs; a call that returns has        *)
(* applied it after every layer, except after the last one exactly when    *)
(* raw_output is true.                                                     *)
C1_StackOrder ==
    /\ \A k \in 1..Len(stk.trace) : stk.trace[k] = StackEvent(k)
    /\ (stk.pc = "done" /\ stk.n >= 1) => Len(stk.trace) = IF stk.raw_output THEN 2 * stk.n - 1 ELSE 2 * stk.n

C1_Witness == stk.pc = "done" /\ stk.n = 3 /\ stk.raw_output /\ ~stk.nonlin_in.list /\ Len(stk.trace) = 5

(* C2: a stack call given a per-layer list whose length differs from the   *)
(* number of layer specs fails, whatever the lengths and raw_output.       *)
C2_LengthMismatchFails == (stk.nonlin_in.list /\ Len(stk.nonlin_in.fns) # stk.n) => stk.pc # "done"

(* C3: deconv on an input with known channel count C and a kernel spec     *)
(* (kw, kh, c_out, c_in) fails when c_in differs from C and passes the     *)
(* channel check when c_in equals C, for every c_out.                      *)
C3_DeconvChannelCheck ==
    (call.op = "deconv" /\ ndims(call.X) = 4 /\ Truthy(call.X.static[4]) /\ Len(call.param_in["kernel"]) = 4) =>
        IF call.param_in["kernel"][4] # call.X.static[4]
        THEN call.res.status = "fail"
        ELSE call.res.reason # "channel_conflict"

(* C4: the shape a successful deconv declares for its result on an input   *)
(* of known width and height is [b, w', h', c_out] with w' = w*sw and      *)
(* h' = h*sh, plus kernel_size - 1 under VALID, and agrees in every        *)
(* dimension with the output_shape handed to the primitive.                *)
C4_DeconvShapesAgree ==
    (call.op = "deconv" /\ call.res.status = "ok" /\ Truthy(call.X.static[2]) /\ Truthy(call.X.static[3])) =>
        LET declared == call.res.out.static
            stride == call.res.param["stride"]
            kernel == call.param_in["kernel"]
            extra(k) == IF call.res.param["pad"] = "VALID" THEN k - 1 ELSE 0
        IN  /\ declared[2] = call.X.static[2] * stride[2] + extra(kernel[1])
            /\ declared[3] = call.X.static[3] * stride[3] + extra(kernel[2])
            /\ \A d \in 1..4 : declared[d] = None \/ declared[d] = call.res.output_shape[d]

Clamp(v, lo, hi) == IF v < lo THEN lo ELSE IF v > hi THEN hi ELSE v

(* C5: under pad CONSTANT the tensor conv hands to the primitive has       *)
(* spatial size (W + kw - 1) x (H + kh - 1), kw \div 2 columns before and  *)
(* kw - kw \div 2 - 1 after (likewise rows), every position holding the    *)
(* input element of the nearest original position, corners included; the   *)
(* primitive runs VALID and the result has the spatial size SAME gives.    *)
C5_ConstantPad ==
    (call.op = "conv" /\ call.res.status = "ok" /\ call.res.param["pad"] = "CONSTANT") =>
        LET W == call.X.dyn[2]
            H == call.X.dyn[3]
            kw == call.param_in["kernel"][1]
            kh == call.param_in["kernel"][2]
            P == call.res.primX
        IN  /\ P.dyn[2] = W + kw - 1 /\ P.dyn[3] = H + kh - 1
            /\ Len(P.grid) = W + kw - 1
            /\ \A i \in 1..(W + kw - 1) : Len(P.grid[i]) = H + kh - 1
            /\ \A i \in 1..(W + kw - 1), j \in 1..(H + kh - 1) : P.grid[i][j] = call.X.grid[Clamp(i - kw \div 2, 1, W)][Clamp(j - kh \div 2, 1, H)]
            /\ P.static[2] = (IF call.X.static[2] = None THEN None ELSE W + kw - 1)
            /\ P.static[3] = (IF call.X.static[3] = None THEN None ELSE H + kh - 1)
            /\ call.res.primPad = "VALID"
            /\ call.res.out.dyn[2] = CeilDiv(W, 1) /\ call.res.out.dyn[3] = CeilDiv(H, 1)

C5_Witness == call.op = "conv" /\ call.res.status = "ok" /\ call.res.param["pad"] = "CONSTANT" /\ call.param_in["kernel"][1] = 3 /\ call.param_in["kernel"][2] = 2 /\ call.X.dyn[2] = 2 /\ call.X.dyn[3] = 2 /\ call.res.primX.grid[4][3] = <<2, 2>> /\ call.res.primX.grid[1][1] = <<1, 1>>

(* C6: deconv with pad SAME followed by conv with pad SAME and the same    *)
(* stride gives back the spatial dimensions (w, h) of the deconv's input.  *)
C6_RoundTripStep ==
    (call.op = "deconv" /\ call.res.status = "ok" /\ call.res.param["pad"] = "SAME" /\ call'.op = "conv" /\ call'.from = "deconv" /\ call'.X = call.res.out
        /\ call'.res.status = "ok" /\ call'.res.param["pad"] = "SAME" /\ call'.res.param["stride"] = call.res.param["stride"]) =>
        /\ call'.res.out.dyn[2] = call.X.dyn[2] /\ call'.res.out.dyn[3] = call.X.dyn[3]
        /\ call'.res.out.static[2] = call.X.static[2] /\ call'.res.out.static[3] = call.X.static[3]

(* C6, over every step of every behaviour: a SAME conv of a SAME deconv's  *)
(* result, with the same stride, has the deconv input's width and height.  *)
C6_RoundTrip == [][C6_RoundTripStep]_vars

C6_Witness == call.op = "conv" /\ call.from = "deconv" /\ call.res.status = "ok" /\ call.res.param["pad"] = "SAME" /\ call.res.param["stride"] = <<1, 2, 2, 1>> /\ call.X.static[2] = 4 /\ call.res.out.static[2] = 2 /\ call.param_in["kernel"][1] = 3

Unique(reg) == \A p \in reg, q \in reg : (p.scope = q.scope /\ p.name = q.name) => p = q

Got(c) == {c.res.got[k] : k \in 1..Len(c.res.got)}

(* C7: the registry holds one parameter per (scope_name, name) pair handed *)
(* out and never drops one; a call hands out parameters of its own scope   *)
(* (kernel_<name> for conv and deconv, w_<name> and b_<name> for affine);  *)
(* repeating a call with the same operator, name, scope, spec and input    *)
(* returns the same parameters and creates none; gated_conv is handed two  *)
(* distinct parameters kernel_<name>_f and kernel_<name>_g of equal shape. *)
C7_RegistryStep ==
    /\ Unique(registry')
    /\ registry \subseteq registry'
    /\ (registry' \ registry) \subseteq Got(call')
    /\ Got(call') \subseteq registry'
    /\ \A p \in Got(call') : p.scope = call'.scope_name
    /\ (call.res.status = "ok" /\ call'.res.status = "ok" /\ call'.op = call.op /\ call'.name = call.name /\ call'.scope_name = call.scope_name
            /\ call'.X = call.X /\ call'.param_in \in {call.param_in, call.res.param}) =>
        (registry' = registry /\ call'.res.got = call.res.got /\ call'.created = 0)
    /\ (call'.op \in {"conv", "deconv"} /\ call'.res.status = "ok") =>
        (Len(call'.res.got) = 1 /\ call'.res.got[1].name = "kernel_" \o call'.name)
    /\ (call'.op = "affine" /\ call'.res.status = "ok") =>
        (Len(call'.res.got) = 2 /\ call'.res.got[1].name = "w_" \o call'.name /\ call'.res.got[2].name = "b_" \o call'.name)
    /\ (call'.op = "gated_conv" /\ call'.res.status = "ok") =>
        /\ Len(call'.res.got) = 2
        /\ call'.res.got[1].name = "kernel_" \o call'.name \o "_f"
        /\ call'.res.got[2].name = "kernel_" \o call'.name \o "_g"
        /\ call'.res.got[1] # call'.res.got[2]
        /\ call'.res.got[1].shape = call'.res.got[2].shape

(* C7, over every step of every behaviour: one parameter per (scope,      *)
(* name), none created by a repeated call, two of equal shape for          *)
(* gated_conv.                                                             *)
C7_Registry == [][C7_RegistryStep]_vars

C7_Witness == ncalls = 2 /\ call.op = "gated_conv" /\ call.res.status = "ok" /\ call.created = 0 /\ Cardinality(registry) = 2

(* C8: a conv, deconv or gated_conv call leaves every key the LayerSpec    *)
(* held with its value and adds at most 'stride' = (1,1,1,1) and           *)
(* 'pad' = SAME, each only when it was absent; a spec holding both is      *)
(* left as it is.                                                          *)
C8_SpecFrame ==
    (call.op \in {"conv", "deconv", "gated_conv"}) =>
        LET before == call.param_in
            after == call.res.param
        IN  /\ \A key \in DOMAIN before : key \in DOMAIN after /\ after[key] = before[key]
            /\ DOMAIN after \subseteq DOMAIN before \cup {"stride", "pad"}
            /\ ("stride" \in DOMAIN after \ DOMAIN before) => after["stride"] = <<1, 1, 1, 1>>
            /\ ("pad" \in DOMAIN after \ DOMAIN before) => after["pad"] = "SAME"
            /\ ({"stride", "pad"} \subseteq DOMAIN before) => after = before
            /\ call.res.status = "ok" => {"stride", "pad"} \subseteq DOMAIN after

C8_Witness == call.op = "gated_conv" /\ call.res.status = "ok" /\ DOMAIN call.param_in = {"kernel"} /\ DOMAIN call.res.param = {"kernel", "stride", "pad"}

Ceff(c) == c.X.static[4] + (IF GetBias(c.param_in) THEN 1 ELSE 0)

(* C9: on an input with C channels conv requests a kernel of shape         *)
(* [kw, kh, C_eff, c_out], and deconv with a kernel spec (kw, kh, c_out)   *)
(* one of shape [kw, kh, c_out, C_eff], C_eff = C + 1 under bias and C     *)
(* otherwise; the tensor handed to the primitive has C_eff channels, also  *)
(* under pad CONSTANT.                                                     *)
C9_KernelShapes ==
    LET kernel == call.param_in["kernel"]
    IN  /\ (call.op = "conv" /\ call.X.static[4] # None /\ call.res.got # <<>>) =>
                call.res.got[1].shape = <<kernel[1], kernel[2], Ceff(call), kernel[3]>>
        /\ (call.op = "deconv" /\ Truthy(call.X.static[4]) /\ Len(kernel) = 3 /\ call.res.got # <<>>) =>
                call.res.got[1].shape = <<kernel[1], kernel[2], kernel[3], Ceff(call)>>
        /\ (call.op \in {"conv", "deconv"} /\ call.X.static[4] # None /\ call.res.status = "ok") =>
                (call.res.got # <<>> /\ call.res.primX.dyn[4] = Ceff(call))

C9_Witness == call.op = "conv" /\ call.res.status = "ok" /\ GetBias(call.param_in) /\ call.res.param["pad"] = "CONSTANT" /\ call.res.got[1].shape = <<3, 2, 3, 1>> /\ call.res.primX.dyn = <<1, 4, 3, 3>>

Preconditions == {"rank", "constant_stride", "channel_unknown", "channel_conflict"}

(* C10: a call that fails on a precondition (input rank, CONSTANT with a   *)
(* stride, unknown or conflicting channel count) has requested no          *)
(* parameter: the registry after it is the registry before it.             *)
C10_FailStep == (call'.res.status = "fail" /\ call'.res.reason \in Preconditions) => (registry' = registry /\ call'.res.got = <<>> /\ call'.created = 0)

====
